---------------------------- MODULE Spec2Model ----------------------------
(***************************************************************************)
(* Model of the Three.js example view of ext-apps:                         *)
(*   - the visibility-aware animation controller                           *)
(*     (createAnimationController, threejs-app.tsx),                       *)
(*   - the browser's animation-frame callback list it forwards to,         *)
(*   - the wrapper's streaming tool-input reducer and its render decision  *)
(*     (McpAppWrapper, mcp-app-wrapper.tsx),                               *)
(*   - the ThreeJSApp component: derived render values, the visibility     *)
(*     effect (IntersectionObserver), the scene effect with the            *)
(*     asynchronous outcome of each scene execution, and the display-mode  *)
(*     negotiation (toggleFullscreen).                                     *)
(*                                                                         *)
(* The program's operations are written as functions from a world record   *)
(* (one field per variable) to a world record, so that a handler that      *)
(* calls other functions (setVisible replaying through visibilityAwareRAF, *)
(* an event handler followed by the re-render and its effects) is one      *)
(* atomic action.                                                          *)
(***************************************************************************)
EXTENDS Integers, Sequences, FiniteSets, Bags, TLC

\* ------------------------------------------------------------------ bounds
\* CtlSpec: number of schedule(cb) calls (frame callbacks' included), and number
\* of controllers created.
MaxCalls == 3
MaxCtl == 2
\* Spec: number of schedule(cb) calls made by scene code (frame callbacks' included).
MaxSceneCalls == 2

\* Number of scene executions (controllers created) by the component.
MaxScenes == 2
\* Number of requestDisplayMode requests awaiting the host's response.
MaxRequests == 2

\* ------------------------------------------------------------------ values
\* A nullable value: Null, or Some(v).
Null == <<>>
Some(v) == <<v>>
Val(x) == x[1]

\* An absent (undefined) property of an object.
Undefined == "undefined"
\* The absent height (ThreeJSToolInput.height is optional).
NoHeight == -1
\* Tool-input arguments the host may send: { code?: string; height?: number }.
ToolArgs == [code : {Undefined, "A"}, height : {NoHeight, 300}]
\* Host-context objects (and change notifications): each key may be absent.
HostContexts == [displayMode : {Undefined, "inline", "fullscreen"},
                 theme : {Undefined, "dark"}]
DEFAULT_THREEJS_CODE == "DEFAULT"
DefaultHeight == 400

\* The display modes of the view.
DisplayModes == {"inline", "fullscreen"}

NoRender == [view |-> "none", height |-> NoHeight, code |-> Undefined,
             partialCode |-> Undefined, overlay |-> Null]
NoScene == [code |-> Undefined, height |-> NoHeight, canvas |-> 0]

VARIABLES
  \* --- animation controllers and the browser's frame requests
  ctls,          \* controllers created so far: [isVisible, pendingCallbacks, rafIds]
  rafLog,        \* the callback of every requestAnimationFrame call so far;
                 \* a request's id is its position
  rafQueue,      \* ids of the frame requests still outstanding in the browser
  ret,           \* value returned by the most recent visibilityAwareRAF call
  schedLog,      \* history: the controller of every schedule(cb) call made by scene
                 \* code; the callback passed by call n is labelled n
  dead,          \* history: callbacks passed to a controller before its latest cleanup()
  \* --- McpAppWrapper
  app,               \* useApp().app: Null or Some("app")
  error,             \* useApp().error: Null or Some(message)
  toolInputs,        \* useState: complete tool input
  toolInputsPartial, \* useState: partial tool input
  toolResult,        \* useState: tool result
  hostContext,       \* useState: host context
  rendered,          \* what the last render returned: the wrapper's branch and the
                     \* values ThreeJSApp rendered with
  \* --- ThreeJSApp
  mounted,            \* a ThreeJSApp instance is mounted
  sceneError,         \* useState (error): Null, or Some(e) for the message of the
                      \* error thrown by scene execution e
  currentDisplayMode, \* useState
  displayRequests,    \* the newMode of each app.requestDisplayMode call that
                      \* toggleFullscreen is awaiting
  container,          \* the <div> the view returns at its root (the same element
                      \* in both branches), 0 when the view is not mounted
  containerRef,       \* useRef: the root <div> while the canvas view is rendered
                      \* (the branch that passes ref={containerRef}), 0 when null
  canvasRef,          \* useRef: the mounted canvas element, 0 when null
  elements,           \* number of DOM elements (root <div>, canvases) created so far
  animControllerRef,  \* useRef: index into ctls, 0 when null
  observed,           \* the element the IntersectionObserver observes, 0 when there
                      \* is no observer or it is disconnected
  lastReport,         \* history: the latest report of the IntersectionObserver:
                      \* "none", "intersecting" or "notIntersecting"
  deps,               \* <<code, height>> of the previous render (scene effect)
  depDisplayMode,     \* hostContext?.displayMode of the previous render
  hasCleanup,         \* the scene effect's last run returned its cleanup function
  scene,              \* the arguments of the latest executeThreeCode call
  running             \* the executeThreeCode calls whose promise is not settled;
                      \* execution e is the one that was handed controller e

ctlVars == <<ctls, rafLog, rafQueue, ret, schedLog, dead>>
wrapperVars == <<app, error, toolInputs, toolInputsPartial, toolResult, hostContext,
                 rendered>>
viewVars == <<mounted, sceneError, currentDisplayMode, displayRequests,
              container, containerRef, canvasRef, elements,
              animControllerRef, observed, lastReport, deps, depDisplayMode,
              hasCleanup, scene, running>>
vars == <<ctlVars, wrapperVars, viewVars>>

\* The world record the operations transform.
World ==
  [ctls |-> ctls, rafLog |-> rafLog, rafQueue |-> rafQueue, ret |-> ret,
   schedLog |-> schedLog, dead |-> dead,
   app |-> app, error |-> error, toolInputs |-> toolInputs,
   toolInputsPartial |-> toolInputsPartial, toolResult |-> toolResult,
   hostContext |-> hostContext, rendered |-> rendered,
   mounted |-> mounted, sceneError |-> sceneError,
   currentDisplayMode |-> currentDisplayMode, displayRequests |-> displayRequests,
   container |-> container, containerRef |-> containerRef,
   canvasRef |-> canvasRef, elements |-> elements,
   animControllerRef |-> animControllerRef, observed |-> observed,
   lastReport |-> lastReport, deps |-> deps, depDisplayMode |-> depDisplayMode,
   hasCleanup |-> hasCleanup, scene |-> scene, running |-> running]

Commit(w) ==
  /\ ctls' = w.ctls
  /\ rafLog' = w.rafLog
  /\ rafQueue' = w.rafQueue
  /\ ret' = w.ret
  /\ schedLog' = w.schedLog
  /\ dead' = w.dead
  /\ app' = w.app
  /\ error' = w.error
  /\ toolInputs' = w.toolInputs
  /\ toolInputsPartial' = w.toolInputsPartial
  /\ toolResult' = w.toolResult
  /\ hostContext' = w.hostContext
  /\ rendered' = w.rendered
  /\ mounted' = w.mounted
  /\ sceneError' = w.sceneError
  /\ currentDisplayMode' = w.currentDisplayMode
  /\ displayRequests' = w.displayRequests
  /\ container' = w.container
  /\ containerRef' = w.containerRef
  /\ canvasRef' = w.canvasRef
  /\ elements' = w.elements
  /\ animControllerRef' = w.animControllerRef
  /\ observed' = w.observed
  /\ lastReport' = w.lastReport
  /\ deps' = w.deps
  /\ depDisplayMode' = w.depDisplayMode
  /\ hasCleanup' = w.hasCleanup
  /\ scene' = w.scene
  /\ running' = w.running

\* ------------------------------------------------- browser frame primitives
\* window.requestAnimationFrame(callback): a new handle, the callback joins the
\* list of animation frame callbacks.
requestAnimationFrame(w, cb) ==
  LET id == Len(w.rafLog) + 1 IN
  [w EXCEPT !.rafLog = Append(@, cb),
            !.rafQueue = @ \cup {id},
            !.ret = id]

\* window.cancelAnimationFrame(id): removes the request if still outstanding.
cancelAnimationFrame(w, id) ==
  [w EXCEPT !.rafQueue = @ \ {id}]

\* ---------------------------------------------------- animation controller
createAnimationController ==
  [isVisible |-> TRUE, pendingCallbacks |-> <<>>, rafIds |-> <<>>]

\* Mutant: the visible flag is not consulted, every call goes to the browser.
visibilityAwareRAF_AlwaysForwards(w, c, cb) ==
  LET w1 == requestAnimationFrame(w, cb) IN
  [w1 EXCEPT !.ctls[c].rafIds = Append(@, w1.ret)]

\* Mutant: the store is a single slot, a stored callback replaces the previous one.
visibilityAwareRAF_KeepsOnlyLatest(w, c, cb) ==
  IF w.ctls[c].isVisible
    THEN LET w1 == requestAnimationFrame(w, cb) IN
         [w1 EXCEPT !.ctls[c].rafIds = Append(@, w1.ret)]
    ELSE [w EXCEPT !.ctls[c].pendingCallbacks = <<cb>>,
                   !.ret = -1]

visibilityAwareRAF(w, c, cb) ==
  IF w.ctls[c].isVisible
    THEN LET w1 == requestAnimationFrame(w, cb) IN
         [w1 EXCEPT !.ctls[c].rafIds = Append(@, w1.ret)]
    ELSE [w EXCEPT !.ctls[c].pendingCallbacks = Append(@, cb),
                   !.ret = -1]

\* Mutant: the stored callbacks are replayed last to first.
RECURSIVE forEachReplay_Reversed(_, _, _)
forEachReplay_Reversed(w, c, callbacks) ==
  IF callbacks = <<>>
    THEN w
    ELSE forEachReplay_Reversed(
           visibilityAwareRAF(w, c, callbacks[Len(callbacks)]), c,
           SubSeq(callbacks, 1, Len(callbacks) - 1))

\* callbacks.forEach((cb) => visibilityAwareRAF(cb))
RECURSIVE forEachReplay(_, _, _)
forEachReplay(w, c, callbacks) ==
  IF callbacks = <<>>
    THEN w
    ELSE forEachReplay(visibilityAwareRAF(w, c, Head(callbacks)), c, Tail(callbacks))

\* Mutant: the stored callbacks are replayed but the store is not emptied.
setVisible_KeepsStore(w, c, visible) ==
  LET w1 == [w EXCEPT !.ctls[c].isVisible = visible] IN
  IF visible /\ Len(w1.ctls[c].pendingCallbacks) > 0
    THEN LET callbacks == w1.ctls[c].pendingCallbacks
             w2 == forEachReplay(w1, c, callbacks)
         IN  [w2 EXCEPT !.ctls[c].pendingCallbacks = callbacks]
    ELSE w1

setVisible(w, c, visible) ==
  LET w1 == [w EXCEPT !.ctls[c].isVisible = visible] IN
  IF visible /\ Len(w1.ctls[c].pendingCallbacks) > 0
    THEN LET callbacks == w1.ctls[c].pendingCallbacks
             w2 == [w1 EXCEPT !.ctls[c].pendingCallbacks = <<>>]
         IN  forEachReplay(w2, c, callbacks)
    ELSE w1

\* rafIds.forEach((id) => cancelAnimationFrame(id))
RECURSIVE forEachCancel(_, _)
forEachCancel(w, ids) ==
  IF ids = <<>>
    THEN w
    ELSE forEachCancel(cancelAnimationFrame(w, Head(ids)), Tail(ids))

\* Mutant: the arrays are emptied but the frame requests are not cancelled.
cleanup_NoCancel(w, c) ==
  [w EXCEPT !.ctls[c].rafIds = <<>>,
            !.ctls[c].pendingCallbacks = <<>>]

cleanup(w, c) ==
  LET w1 == forEachCancel(w, w.ctls[c].rafIds) IN
  [w1 EXCEPT !.ctls[c].rafIds = <<>>,
             !.ctls[c].pendingCallbacks = <<>>]

\* ------------------------------------------------------- calls, with history
\* The callbacks passed so far to controller c's schedule function.
CallsOn(w, c) == {n \in 1..Len(w.schedLog) : w.schedLog[n] = c}

\* Scene code calling the requestAnimationFrame it was handed (the controller's
\* visibilityAwareRAF) with a callback; the call is noted in schedLog.
schedule(w, c) ==
  LET cb == Len(w.schedLog) + 1 IN
  visibilityAwareRAF([w EXCEPT !.schedLog = Append(@, c)], c, cb)

\* cleanup() on controller c; the callbacks it had been passed are noted in dead.
callCleanup(w, c) ==
  LET w1 == cleanup(w, c) IN
  [w1 EXCEPT !.dead = @ \cup CallsOn(w, c)]

\* A new controller, appended to ctls.
newController(w) ==
  [w EXCEPT !.ctls = Append(@, createAnimationController)]

\* ------------------------------------------------- ThreeJSApp: render values
\* const height = toolInputs?.height ?? toolInputsPartial?.height ?? 400;
height(w) ==
  IF w.toolInputs # Null /\ Val(w.toolInputs).height # NoHeight
    THEN Val(w.toolInputs).height
    ELSE IF w.toolInputsPartial # Null /\ Val(w.toolInputsPartial).height # NoHeight
           THEN Val(w.toolInputsPartial).height
           ELSE DefaultHeight

\* const code = toolInputs?.code || DEFAULT_THREEJS_CODE;
code(w) ==
  IF w.toolInputs # Null /\ Val(w.toolInputs).code \notin {Undefined, ""}
    THEN Val(w.toolInputs).code
    ELSE DEFAULT_THREEJS_CODE

\* const partialCode = toolInputsPartial?.code;
partialCode(w) ==
  IF w.toolInputsPartial # Null THEN Val(w.toolInputsPartial).code ELSE Undefined

\* Mutant: a stored partial value alone means streaming.
isStreaming_PartialOnly(w) == w.toolInputsPartial # Null

\* const isStreaming = !toolInputs && !!toolInputsPartial;
isStreaming(w) == w.toolInputs = Null /\ w.toolInputsPartial # Null

\* hostContext?.displayMode
displayModeOf(w) ==
  IF w.hostContext # Null THEN Val(w.hostContext).displayMode ELSE Undefined

\* ------------------------------------------------------ ThreeJSApp: effects
\* Sync display mode from host context.
syncDisplayMode(w) ==
  IF displayModeOf(w) \in {"inline", "fullscreen"}
    THEN [w EXCEPT !.currentDisplayMode = displayModeOf(w)]
    ELSE w

\* Visibility-based pause/play: runs once, on mount.
visibilityEffect(w) ==
  IF w.containerRef = 0
    THEN w
    ELSE [w EXCEPT !.observed = w.containerRef]

\* The IntersectionObserver's callback, for one entry.
observerCallback(w, isIntersecting) ==
  IF w.animControllerRef = 0
    THEN w
    ELSE setVisible(w, w.animControllerRef, isIntersecting)

\* () => animControllerRef.current?.cleanup(), when the last run returned it.
sceneEffectCleanup(w) ==
  IF w.hasCleanup /\ w.animControllerRef # 0
    THEN callCleanup(w, w.animControllerRef)
    ELSE w

\* executeThreeCode(code, canvas, width, height, visibilityAwareRAF): the scene
\* code starts running with controller e's schedule function; the promise is
\* settled later.
executeThreeCode(w, c, canvas, h, e) ==
  [w EXCEPT !.scene = [code |-> c, height |-> h, canvas |-> canvas],
            !.running = @ \cup {e}]

\* The scene effect's body, for the render values c (code) and h (height).
sceneEffect(w, c, h) ==
  IF c = "" \/ w.canvasRef = 0 \/ w.containerRef = 0
    THEN [w EXCEPT !.hasCleanup = FALSE]
    ELSE LET w1 == IF w.animControllerRef = 0
                     THEN w
                     ELSE callCleanup(w, w.animControllerRef)
             w2 == newController(w1)
             w3 == [w2 EXCEPT !.animControllerRef = Len(w2.ctls),
                              !.sceneError = Null]
             w4 == executeThreeCode(w3, c, w3.canvasRef, h, w3.animControllerRef)
         IN  [w4 EXCEPT !.hasCleanup = TRUE]

\* --------------------------------------------------- ThreeJSApp: the component
\* Commit of the returned tree.  Both branches return a <div> at the root, so
\* the root element is created on mount and kept from then on; only the canvas
\* branch passes ref={containerRef}, so containerRef is that element while the
\* canvas view is rendered and null while the streaming preview is.  The
\* <canvas> is a child of the canvas branch only: a new element each time that
\* branch replaces the preview.
commitRefs(w, showCanvas) ==
  LET w1 == IF w.container # 0
              THEN w
              ELSE [w EXCEPT !.elements = @ + 1, !.container = w.elements + 1]
  IN  IF showCanvas
        THEN IF w1.canvasRef # 0
               THEN [w1 EXCEPT !.containerRef = w1.container]
               ELSE [w1 EXCEPT !.elements = @ + 1,
                               !.containerRef = w1.container,
                               !.canvasRef = w1.elements + 1]
        ELSE [w1 EXCEPT !.containerRef = 0, !.canvasRef = 0]

\* One render of ThreeJSApp with the wrapper's current props, its commit, and the
\* effects whose dependencies changed (all of them on mount), in source order.
\* A state update made by an effect (setCurrentDisplayMode, setError) re-renders
\* with unchanged dependencies: what is rendered shows the state after the effects.
ThreeJSApp(w) ==
  LET first == ~w.mounted
      w0 == IF first
              THEN [w EXCEPT !.mounted = TRUE, !.sceneError = Null,
                             !.currentDisplayMode = "inline"]
              ELSE w
      h == height(w0)
      c == code(w0)
      showCanvas == ~(isStreaming(w0) \/ c = "")
      w1 == commitRefs(w0, showCanvas)
      w2 == IF first \/ displayModeOf(w1) # w1.depDisplayMode
              THEN syncDisplayMode(w1)
              ELSE w1
      w3 == IF first THEN visibilityEffect(w2) ELSE w2
      w4 == IF first
              THEN sceneEffect(w3, c, h)
              ELSE IF <<c, h>> # w3.deps
                     THEN sceneEffect(sceneEffectCleanup(w3), c, h)
                     ELSE w3
  IN  [w4 EXCEPT !.deps = <<c, h>>,
                 !.depDisplayMode = displayModeOf(w1),
                 !.rendered = [view |-> IF showCanvas THEN "canvas" ELSE "shimmer",
                               height |-> h, code |-> c,
                               partialCode |-> partialCode(w0),
                               overlay |-> IF showCanvas THEN w4.sceneError
                                                         ELSE Null]]

\* Unmount of ThreeJSApp: the effects' cleanups run (observer.disconnect(), the
\* scene effect's cleanup) and the instance, with its state and refs, is gone.
unmountThreeJSApp(w) ==
  IF ~w.mounted
    THEN w
    ELSE LET w1 == sceneEffectCleanup(w) IN
         [w1 EXCEPT !.mounted = FALSE, !.observed = 0, !.container = 0,
                    !.containerRef = 0,
                    !.canvasRef = 0, !.animControllerRef = 0, !.hasCleanup = FALSE,
                    !.sceneError = Null, !.currentDisplayMode = "inline",
                    !.deps = <<Undefined, NoHeight>>, !.depDisplayMode = Undefined]

\* ------------------------------------------ ThreeJSApp: asynchronous handlers
\* executeThreeCode(...).catch((e) => setError(e.message)), for execution e; a
\* state update of an unmounted component is dropped.
sceneRejected(w, e) ==
  LET w1 == [w EXCEPT !.running = @ \ {e}] IN
  IF w1.mounted
    THEN ThreeJSApp([w1 EXCEPT !.sceneError = Some(e)])
    ELSE w1

\* The promise of execution e is fulfilled: nothing is chained to that.
sceneFulfilled(w, e) ==
  [w EXCEPT !.running = @ \ {e}]

\* The sequence without its i-th element.
RemoveAt(seq, i) == SubSeq(seq, 1, i - 1) \o SubSeq(seq, i + 1, Len(seq))

\* toggleFullscreen, up to the await: the opposite of the rendered display mode
\* is requested from the host.
toggleFullscreen(w) ==
  LET isFullscreen == w.currentDisplayMode = "fullscreen"
      newMode == IF isFullscreen THEN "inline" ELSE "fullscreen"
  IN  [w EXCEPT !.displayRequests = Append(@, newMode)]

\* Mutant: the mode the host reports is adopted whatever was asked for.
toggleFullscreenResumed_AdoptsAny(w, i, resultMode) ==
  LET w1 == [w EXCEPT !.displayRequests = RemoveAt(@, i)] IN
  IF w1.mounted
    THEN ThreeJSApp([w1 EXCEPT !.currentDisplayMode = resultMode])
    ELSE w1

\* toggleFullscreen, after the await of request i, the host having answered
\* { mode: resultMode }.
toggleFullscreenResumed(w, i, resultMode) ==
  LET newMode == w.displayRequests[i]
      w1 == [w EXCEPT !.displayRequests = RemoveAt(@, i)]
  IN  IF resultMode = newMode /\ w1.mounted
        THEN ThreeJSApp([w1 EXCEPT !.currentDisplayMode = resultMode])
        ELSE w1

\* toggleFullscreen, request i having failed: catch { // ignore }.
toggleFullscreenCaught(w, i) ==
  [w EXCEPT !.displayRequests = RemoveAt(@, i)]

\* ------------------------------------------------------------- McpAppWrapper
\* Mutant: the app is looked at before the error.
McpAppWrapper_AppFirst(w) ==
  IF w.app # Null
    THEN ThreeJSApp(w)
    ELSE IF w.error # Null
           THEN [unmountThreeJSApp(w) EXCEPT
                   !.rendered = [NoRender EXCEPT !.view = "error"]]
           ELSE [unmountThreeJSApp(w) EXCEPT
                   !.rendered = [NoRender EXCEPT !.view = "loading"]]

\* The wrapper's render: the error, the connecting placeholder, or the view.
McpAppWrapper(w) ==
  IF w.error # Null
    THEN [unmountThreeJSApp(w) EXCEPT !.rendered = [NoRender EXCEPT !.view = "error"]]
    ELSE IF w.app = Null
           THEN [unmountThreeJSApp(w) EXCEPT
                   !.rendered = [NoRender EXCEPT !.view = "loading"]]
           ELSE ThreeJSApp(w)

\* app.ontoolinput
ontoolinput(w, args) ==
  [w EXCEPT !.toolInputs = Some(args), !.toolInputsPartial = Null]

\* Mutant: a partial event restarts the invocation, dropping the complete value.
ontoolinputpartial_ResetsComplete(w, args) ==
  [w EXCEPT !.toolInputsPartial = Some(args), !.toolInputs = Null]

\* app.ontoolinputpartial
ontoolinputpartial(w, args) ==
  [w EXCEPT !.toolInputsPartial = Some(args)]

\* app.ontoolresult
ontoolresult(w, params) ==
  [w EXCEPT !.toolResult = Some(params)]

\* Mutant: the notification's parameters replace the stored context.
spread_Replaces(prev, params) == params

\* { ...prev, ...params }
spread(prev, params) ==
  [k \in DOMAIN params |->
     IF params[k] # Undefined
       THEN params[k]
       ELSE IF prev # Null THEN Val(prev)[k] ELSE Undefined]

\* app.onhostcontextchanged
onhostcontextchanged(w, params) ==
  [w EXCEPT !.hostContext = Some(spread(w.hostContext, params))]

\* Get initial host context after connection (effect on [app]).
initialHostContext(w, ctx) ==
  IF w.app # Null /\ ctx # Null
    THEN McpAppWrapper([w EXCEPT !.hostContext = ctx])
    ELSE w

\* The component's step to world w, within the bound on scene executions.
Step(w) ==
  /\ Len(w.ctls) <= MaxScenes
  /\ Commit(w)

\* ------------------------------------------------------------------ actions
\* After createRoot(...).render(<McpAppWrapper />): no app, no error, so the wrapper
\* shows the connecting placeholder and ThreeJSApp is not mounted.
Init ==
  /\ ctls = <<>>
  /\ rafLog = <<>>
  /\ rafQueue = {}
  /\ ret = 0
  /\ schedLog = <<>>
  /\ dead = {}
  /\ app = Null
  /\ error = Null
  /\ toolInputs = Null
  /\ toolInputsPartial = Null
  /\ toolResult = Null
  /\ hostContext = Null
  /\ rendered = [NoRender EXCEPT !.view = "loading"]
  /\ mounted = FALSE
  /\ sceneError = Null
  /\ currentDisplayMode = "inline"
  /\ displayRequests = <<>>
  /\ container = 0
  /\ containerRef = 0
  /\ canvasRef = 0
  /\ elements = 0
  /\ animControllerRef = 0
  /\ observed = 0
  /\ lastReport = "none"
  /\ deps = <<Undefined, NoHeight>>
  /\ depDisplayMode = Undefined
  /\ hasCleanup = FALSE
  /\ scene = NoScene
  /\ running = {}

\* The browser runs an outstanding frame callback: the request leaves the list
\* and the callback is invoked.  A one-shot callback returns.
FrameFire ==
  \E id \in rafQueue :
    Commit([World EXCEPT !.rafQueue = @ \ {id}])

\* The same, for the callback of an animation loop (function animate), which
\* asks for the next frame through the schedule function its scene was handed.
animationLoopFrame(w, id) ==
  schedule([w EXCEPT !.rafQueue = @ \ {id}], w.schedLog[w.rafLog[id]])

\* Harness (CtlSpec): direct calls on the controllers, in any order.
CtlCreate ==
  /\ Len(ctls) < MaxCtl
  /\ Commit(newController(World))

CtlSchedule ==
  \E c \in 1..Len(ctls) :
    /\ Len(schedLog) < MaxCalls
    /\ Commit(schedule(World, c))

CtlFrameLoop ==
  \E id \in rafQueue :
    /\ Len(schedLog) < MaxCalls
    /\ Commit(animationLoopFrame(World, id))

CtlSetVisible ==
  \E c \in 1..Len(ctls), visible \in BOOLEAN :
    Commit(setVisible(World, c, visible))

CtlCleanup ==
  \E c \in 1..Len(ctls) :
    Commit(callCleanup(World, c))

CtlNext ==
  \/ CtlCreate
  \/ CtlSchedule
  \/ FrameFire
  \/ CtlFrameLoop
  \/ CtlSetVisible
  \/ CtlCleanup

CtlSpec == Init /\ [][CtlNext]_vars

\* ---------------------------------------------------- the component's actions
\* useApp: the connection is established and the host gave no context yet
\* (app.getHostContext() returns undefined).
HookConnected ==
  /\ app = Null
  /\ error = Null
  /\ Step(initialHostContext(McpAppWrapper([World EXCEPT !.app = Some("app")]), Null))

\* useApp: the connection is established; the host's context at that time is ctx.
HookConnectedWithContext ==
  \E ctx \in {Some(h) : h \in HostContexts} :
    /\ app = Null
    /\ error = Null
    /\ Step(initialHostContext(McpAppWrapper([World EXCEPT !.app = Some("app")]), ctx))

\* useApp: the connection fails.
HookFailed ==
  /\ error = Null
  /\ Step(McpAppWrapper([World EXCEPT !.error = Some("connection failed")]))

\* The host's notifications.  The handlers are installed in onAppCreated, before
\* the connection is made, and a notification handled before React has rendered
\* with the connected app is batched into that render: it is an event that
\* precedes HookConnected.  Each handler's state updates are followed by the
\* re-render and its effects.
OnToolInput ==
  \E args \in ToolArgs :
    Step(McpAppWrapper(ontoolinput(World, args)))

OnToolInputPartial ==
  \E args \in ToolArgs :
    Step(McpAppWrapper(ontoolinputpartial(World, args)))

OnToolResult ==
  Step(McpAppWrapper(ontoolresult(World, "result")))

OnHostContextChanged ==
  \E params \in HostContexts :
    Step(McpAppWrapper(onhostcontextchanged(World, params)))

\* The IntersectionObserver reports an entry for the element it observes.
ObserverReport ==
  \E isIntersecting \in BOOLEAN :
    /\ observed # 0
    /\ Step([observerCallback(World, isIntersecting) EXCEPT
               !.lastReport = IF isIntersecting THEN "intersecting"
                                                ELSE "notIntersecting"])

\* The promise of a scene execution is rejected (the code threw, synchronously or
\* after an await), or fulfilled.
SceneRejects ==
  \E e \in running :
    Step(sceneRejected(World, e))

SceneFulfils ==
  \E e \in running :
    Step(sceneFulfilled(World, e))

\* The user clicks the fullscreen button of the canvas view, or presses Escape
\* while the view is fullscreen.
ToggleFullscreen ==
  /\ mounted
  /\ rendered.view = "canvas" \/ currentDisplayMode = "fullscreen"
  /\ Len(displayRequests) < MaxRequests
  /\ Step(toggleFullscreen(World))

\* The modes a host may report in its response to requestDisplayMode.
ResultModes == {"inline", "fullscreen", "pip"}

\* The host answers one of the outstanding requestDisplayMode requests.
DisplayModeResult ==
  \E i \in DOMAIN displayRequests, resultMode \in ResultModes :
    Step(toggleFullscreenResumed(World, i, resultMode))

\* One of the outstanding requestDisplayMode requests fails.
DisplayModeFailed ==
  \E i \in DOMAIN displayRequests :
    Step(toggleFullscreenCaught(World, i))

\* Scene code of any execution calls the schedule function it was handed (its
\* controller's visibilityAwareRAF).
SceneSchedule ==
  \E c \in 1..Len(ctls) :
    /\ Len(schedLog) < MaxSceneCalls
    /\ Commit(schedule(World, c))

FrameFireLoop ==
  \E id \in rafQueue :
    /\ Len(schedLog) < MaxSceneCalls
    /\ Commit(animationLoopFrame(World, id))

\* The view's scene lifecycle: connection, streaming tool input, visibility
\* reports, the outcome of scene executions, the scene's schedule calls and the
\* browser's frames.  (Host-context
\* and tool-result events change only hostContext, currentDisplayMode and
\* toolResult, which no scene or controller operation reads: WrapperSpec has them.)
Next ==
  \/ HookConnected
  \/ OnToolInput
  \/ OnToolInputPartial
  \/ HookFailed
  \/ ObserverReport
  \/ SceneRejects
  \/ SceneFulfils
  \/ SceneSchedule
  \/ FrameFire
  \/ FrameFireLoop

Spec == Init /\ [][Next]_vars

\* The wrapper's reducer: connection and all four host events, each with the
\* re-render and the effects it causes.
WrapperNext ==
  \/ HookConnected
  \/ HookConnectedWithContext
  \/ HookFailed
  \/ OnToolInput
  \/ OnToolInputPartial
  \/ OnToolResult
  \/ OnHostContextChanged

WrapperSpec == Init /\ [][WrapperNext]_vars

\* The display mode: connection, host-context events (with the sync effect), the
\* start of a streaming tool input (the view shows the preview, where only the
\* Escape key toggles), and the display-mode requests of the view with the host's
\* responses.  (The display mode is read by no scene or controller operation and
\* the tool-input reducer does not touch it.)
DisplayNext ==
  \/ HookConnected
  \/ HookConnectedWithContext
  \/ HookFailed
  \/ OnToolInputPartial
  \/ OnHostContextChanged
  \/ ToggleFullscreen
  \/ DisplayModeResult
  \/ DisplayModeFailed

DisplaySpec == Init /\ [][DisplayNext]_vars

\* ------------------------------------------------------------------------
\* Properties of the animation controller (checked under CtlSpec)
\* ------------------------------------------------------------------------
Pending(c) == ctls[c].pendingCallbacks
Range(seq) == {seq[i] : i \in DOMAIN seq}
\* Number of times x occurs in seq.
Occurrences(seq, x) == Cardinality({i \in DOMAIN seq : seq[i] = x})
\* The callbacks passed to controller c since its latest cleanup().
Live(c) == CallsOn(World, c) \ dead
\* The callbacks of c, in the order they were forwarded to requestAnimationFrame
\* and, after those, in the order they sit in the pending store.
ForwardedThenPending(c) ==
  SelectSeq(rafLog, LAMBDA cb : cb \in Live(c)) \o
  SelectSeq(Pending(c), LAMBDA cb : cb \in Live(c))
IsIncreasing(seq) == \A i, j \in DOMAIN seq : i < j => seq[i] < seq[j]
\* A step that contains a schedule(cb) call by scene code.
ScheduleCalled == Len(schedLog') = Len(schedLog) + 1

\* C1: every schedule(cb) call made while the controller's visible flag is true
\* forwards cb to requestAnimationFrame in that same call (a new outstanding
\* request, whose id is returned) and does not add it to the pending store;
\* every call made while the flag is false adds cb to the pending store, makes
\* no requestAnimationFrame request and returns -1.
C1_ScheduleForwardsOrStores ==
  [][ScheduleCalled =>
        LET c  == schedLog'[Len(schedLog')]
            cb == Len(schedLog')
        IN  IF ctls[c].isVisible
              THEN /\ rafLog' = Append(rafLog, cb)
                   /\ Len(rafLog') \in rafQueue'
                   /\ ret' = Len(rafLog')
                   /\ ctls'[c].pendingCallbacks = Pending(c)
              ELSE /\ ctls'[c].pendingCallbacks = Append(Pending(c), cb)
                   /\ rafLog' = rafLog
                   /\ rafQueue' \subseteq rafQueue
                   /\ ret' = -1]_vars

\* Both cases of C1 have happened: the latest call was stored and returned -1,
\* and an earlier one was forwarded.
C1_Witness ==
  /\ ret = -1
  /\ \E c \in 1..Len(ctls) : ~ctls[c].isVisible /\ Pending(c) # <<>>
  /\ rafLog # <<>>

\* C2: when setVisible(true) is called on a controller whose visible flag was
\* false, every callback in its pending store is forwarded to
\* requestAnimationFrame exactly once during that call (the new requests are the
\* store's callbacks, all outstanding) and the store is empty afterwards;
\* setVisible(false) forwards nothing and leaves the pending store unchanged
\* (a step that leaves c not visible and is neither a schedule call nor a
\* cleanup makes no request for a callback of c and keeps c's store).
C2_SetVisibleReplaysAndClears ==
  [][\A c \in 1..Len(ctls) :
        /\ (~ctls[c].isVisible /\ ctls'[c].isVisible) =>
              /\ rafLog' = rafLog \o Pending(c)
              /\ (Len(rafLog) + 1)..Len(rafLog') \subseteq rafQueue'
              /\ ctls'[c].pendingCallbacks = <<>>
        /\ (~ctls'[c].isVisible /\ ~ScheduleCalled /\ dead' = dead) =>
              /\ \A id \in (Len(rafLog) + 1)..Len(rafLog') :
                    schedLog[rafLog'[id]] # c
              /\ ctls'[c].pendingCallbacks = Pending(c)]_vars

\* A replay has happened: a callback was forwarded after a callback passed to
\* schedule later than it (it had been stored), and its controller is visible
\* with an empty store.
C2_Witness ==
  \E i, j \in DOMAIN rafLog :
    /\ i < j
    /\ rafLog[i] > rafLog[j]
    /\ ctls[schedLog[rafLog[j]]].isVisible
    /\ Pending(schedLog[rafLog[j]]) = <<>>

\* C3: replay is FIFO: the callbacks passed to a controller are forwarded to
\* requestAnimationFrame in the order in which they were passed to schedule, and
\* the ones still stored follow in that order, over any number of stored
\* callbacks and hide/show cycles.
C3_ReplayIsFifo ==
  \A c \in 1..Len(ctls) : IsIncreasing(ForwardedThenPending(c))

\* Two callbacks were stored by one controller and replayed, in their order,
\* after a callback that another controller was passed later went out.
C3_Witness ==
  /\ rafLog = <<3, 1, 2>>
  /\ schedLog[1] = schedLog[2]
  /\ schedLog[1] # schedLog[3]

\* C4: after cleanup() on a controller no frame request issued through it before
\* the cleanup is still outstanding and none of the callbacks it was passed
\* before is in its pending store, so the browser (which invokes only
\* outstanding requests) invokes none of them after the cleanup, whatever the
\* visible flag was.
C4_CleanupLeavesNothingOutstanding ==
  /\ \A id \in rafQueue : rafLog[id] \notin dead
  /\ \A c \in 1..Len(ctls) : Range(Pending(c)) \cap dead = {}
  /\ \A c \in 1..Len(ctls) :
       \A i \in DOMAIN ctls[c].rafIds : rafLog[ctls[c].rafIds[i]] \notin dead

\* A controller was cleaned up after a request of its went out (the callback is
\* dead, its request gone), and a request made through it since is outstanding.
C4_Witness ==
  \E c \in 1..Len(ctls) :
    /\ \E id \in DOMAIN rafLog : rafLog[id] \in dead /\ schedLog[rafLog[id]] = c
    /\ \E id \in rafQueue : schedLog[rafLog[id]] = c

\* C5: no callback is dropped or duplicated by suspension: every callback passed
\* to schedule (since the controller's latest cleanup, if any) has been
\* forwarded to requestAnimationFrame exactly once or sits in the pending store
\* exactly once, never both; and none is left in the store of a visible
\* controller, so each stored callback is forwarded once setVisible(true) occurs.
C5_NoDropNoDuplicate ==
  \A c \in 1..Len(ctls) :
    /\ \A cb \in Live(c) :
         Occurrences(rafLog, cb) + Occurrences(Pending(c), cb) = 1
    /\ ctls[c].isVisible => Pending(c) = <<>>

\* A never-cleaned controller with a callback forwarded directly, one replayed
\* after being stored, and the most recently queued one in the store.
C5_Witness ==
  \E c \in 1..Len(ctls) :
    /\ CallsOn(World, c) \cap dead = {}
    /\ Cardinality(CallsOn(World, c)) = 3
    /\ Len(Pending(c)) = 1
    /\ Len(rafLog) = 2

\* ------------------------------------------------------------------------
\* Properties of the component
\* ------------------------------------------------------------------------
\* The wrapper renders ThreeJSApp.
ViewRendered == rendered.view \in {"canvas", "shimmer"}

\* C6 (as claimed; refuted under Spec): while the latest intersection-observer
\* report is "not intersecting", a schedule call made by the running scene (the
\* one holding the current controller) is not forwarded to
\* requestAnimationFrame, also after scene re-executions that happen while the
\* view is hidden.
C6_SuspendedWhileHidden ==
  [][(/\ lastReport = "notIntersecting"
      /\ lastReport' = "notIntersecting"
      /\ animControllerRef # 0
      /\ ScheduleCalled
      /\ schedLog'[Len(schedLog')] = animControllerRef)
       => rafLog' = rafLog]_vars

\* C7: a partial tool-input event sets the stored partial value to the event's
\* arguments and leaves the stored complete value, the tool result and the host
\* context unchanged; a complete tool-input event sets the stored complete value
\* to the event's arguments and the stored partial value to null.  (A step is
\* the delivery of an event with arguments args when it is the step the handler
\* and the re-render make from the current state.)
C7_ReducerTransitions ==
  [][\A args \in ToolArgs :
        /\ Step(McpAppWrapper(ontoolinputpartial(World, args))) =>
              /\ toolInputsPartial' = Some(args)
              /\ toolInputs' = toolInputs
              /\ toolResult' = toolResult
              /\ hostContext' = hostContext
        /\ Step(McpAppWrapper(ontoolinput(World, args))) =>
              /\ toolInputs' = Some(args)
              /\ toolInputsPartial' = Null]_vars

\* A partial event overwrote an earlier partial after a complete input, a tool
\* result and a host context had been stored, and these are still there.
C7_Witness ==
  /\ toolInputs # Null
  /\ toolInputsPartial # Null
  /\ toolResult # Null
  /\ hostContext # Null

\* C8 (as claimed; refuted under WrapperSpec): when a complete tool input is
\* stored, the view renders the canvas (no streaming preview) with the code and
\* the height the complete value and the defaults determine, whatever the
\* stored partial value; with no complete value the partial value supplies the
\* height and the preview's code; the defaults (demo code, 400) apply only when
\* neither supplies the value.
C8_CompleteIsAuthoritative ==
  ViewRendered =>
    IF toolInputs # Null
      THEN /\ rendered.view = "canvas"
           /\ rendered.code =
                IF Val(toolInputs).code \notin {Undefined, ""}
                  THEN Val(toolInputs).code
                  ELSE DEFAULT_THREEJS_CODE
           /\ rendered.height =
                IF Val(toolInputs).height # NoHeight
                  THEN Val(toolInputs).height
                  ELSE DefaultHeight
      ELSE IF toolInputsPartial # Null
             THEN /\ rendered.view = "shimmer"
                  /\ rendered.partialCode = Val(toolInputsPartial).code
                  /\ rendered.height =
                       IF Val(toolInputsPartial).height # NoHeight
                         THEN Val(toolInputsPartial).height
                         ELSE DefaultHeight
             ELSE /\ rendered.view = "canvas"
                  /\ rendered.code = DEFAULT_THREEJS_CODE
                  /\ rendered.height = DefaultHeight

\* The streaming state of the stored tool input.
StreamState ==
  IF toolInputs # Null THEN "complete"
  ELSE IF toolInputsPartial # Null THEN "partial" ELSE "empty"

\* C9: the streaming input state only moves empty -> partial -> complete and
\* complete is terminal: once a complete tool input is stored the stored
\* complete value never becomes null again and the view never shows the
\* streaming preview again, whatever events arrive; and (the view being
\* rendered) the streaming preview is shown exactly when no complete value is
\* stored and a partial value is stored.
C9_CompleteIsTerminal ==
  /\ [](ViewRendered => (rendered.view = "shimmer" <=> StreamState = "partial"))
  /\ [][/\ StreamState = "complete" =>
             (StreamState' = "complete" /\ rendered'.view # "shimmer")
        /\ StreamState = "partial" => StreamState' # "empty"]_vars

\* A partial value arrived after the complete one and the canvas view stayed.
C9_Witness ==
  /\ toolInputs # Null
  /\ toolInputsPartial # Null
  /\ rendered.view = "canvas"

\* C10: whenever the connection hook reports an error the wrapper renders only
\* the error message and no 3D view (whether or not an app instance and tool
\* inputs are present); with no error and no app it renders only the connecting
\* placeholder; the 3D view is rendered exactly when there is an app and no
\* error.
C10_ConnectionFailureIsBlocking ==
  /\ error # Null => (rendered.view = "error" /\ ~mounted)
  /\ (error = Null /\ app = Null) => (rendered.view = "loading" /\ ~mounted)
  /\ ViewRendered <=> (app # Null /\ error = Null)
  /\ mounted <=> (app # Null /\ error = Null)

\* The connection hook reports an error while an app instance and a complete
\* tool input are present, and only the error is rendered.
C10_Witness ==
  /\ error # Null
  /\ app # Null
  /\ toolInputs # Null
  /\ rendered.view = "error"
  /\ ~mounted

\* The code and the height the view is rendered with.
RenderedInputs == <<rendered.code, rendered.height>>

\* C11 (as claimed; refuted under Spec): a rejected scene execution stores its
\* error message, which is shown as an overlay whenever the canvas view is
\* rendered, and the view stays as it was (mounted, same branch); and a step
\* that changes the code or the height the view is rendered with (the next
\* input that changes them) leaves no stored error.
C11_SceneErrorNonBlocking ==
  /\ [](rendered.view = "canvas" => rendered.overlay = sceneError)
  /\ [][\A e \in running :
          (mounted /\ Step(sceneRejected(World, e))) =>
             /\ sceneError' = Some(e)
             /\ mounted'
             /\ rendered'.view = rendered.view]_vars
  /\ [][(ViewRendered /\ ViewRendered' /\ RenderedInputs' # RenderedInputs)
          => sceneError' = Null]_vars

\* The outstanding frame requests made through controller c.
Outstanding(c) == {id \in rafQueue : schedLog[rafLog[id]] = c}
\* Controller c has outstanding frame requests or queued callbacks.
Active(c) == Outstanding(c) # {} \/ Pending(c) # <<>>

\* C12 (as claimed; refuted under Spec): while the 3D view is not mounted no
\* controller has outstanding frame requests or queued callbacks, and at any
\* time only the most recently created controller may have some.
C12_AtMostOneActiveController ==
  /\ ~mounted => \A c \in 1..Len(ctls) : ~Active(c)
  /\ \A c \in 1..Len(ctls) : Active(c) => c = Len(ctls)

\* No error is surfaced by the step: neither the connection error nor the scene
\* error changes, and the branch and the overlay rendered stay.
NoErrorSurfaced ==
  /\ error' = error
  /\ sceneError' = sceneError
  /\ rendered'.view = rendered.view
  /\ rendered'.overlay = rendered.overlay

\* C13: a toggleFullscreen call (one more request awaited) requests the opposite
\* of the current local display mode and leaves the local mode as it is; when
\* the host answers request i with resultMode, the local display mode becomes
\* the requested mode if resultMode is exactly the requested mode and is left
\* unchanged otherwise; when the request fails the local display mode is left
\* unchanged; and none of these steps surfaces an error.
C13_DisplayModeNegotiated ==
  [][/\ Len(displayRequests') = Len(displayRequests) + 1 =>
          /\ displayRequests' =
               Append(displayRequests,
                      IF currentDisplayMode = "fullscreen" THEN "inline"
                                                           ELSE "fullscreen")
          /\ currentDisplayMode' = currentDisplayMode
          /\ NoErrorSurfaced
     /\ Len(displayRequests') = Len(displayRequests) - 1 =>
          \A i \in DOMAIN displayRequests :
            /\ \A resultMode \in ResultModes :
                 Step(toggleFullscreenResumed(World, i, resultMode)) =>
                   /\ currentDisplayMode' =
                        IF mounted /\ resultMode = displayRequests[i]
                          THEN displayRequests[i]
                          ELSE currentDisplayMode
                   /\ NoErrorSurfaced
            /\ Step(toggleFullscreenCaught(World, i)) =>
                 /\ currentDisplayMode' = currentDisplayMode
                 /\ NoErrorSurfaced]_vars

\* The host granted a request for fullscreen (the local mode is fullscreen while
\* the host context says inline) and the request back to inline made since is
\* awaiting its answer.
C13_Witness ==
  /\ mounted
  /\ currentDisplayMode = "fullscreen"
  /\ displayModeOf(World) = "inline"
  /\ displayRequests = <<"inline">>

\* C14 (as claimed; refuted under DisplaySpec): when a host-context-change event
\* carrying displayMode "inline" or "fullscreen" has been processed by the
\* mounted view, the view's current display mode is that displayMode, whatever
\* toggleFullscreen requests and responses came before.
C14_DisplayModeSyncedFromHost ==
  [][\A params \in HostContexts :
        (/\ params.displayMode \in DisplayModes
         /\ mounted
         /\ Step(McpAppWrapper(onhostcontextchanged(World, params))))
          => currentDisplayMode' = params.displayMode]_vars

\* The value the stored host context holds for key k (Undefined when absent).
StoredContext(k) == IF hostContext = Null THEN Undefined ELSE Val(hostContext)[k]

\* C15: a host-context-change event sets each key it carries to the event's
\* value and leaves every key it does not carry as it was stored (by the latest
\* event that carried it, or by the initial context), and it leaves the stored
\* tool inputs (complete and partial) and the tool result unchanged.
C15_HostContextLastWriteWins ==
  [][\A params \in HostContexts :
        Step(McpAppWrapper(onhostcontextchanged(World, params))) =>
          /\ hostContext' # Null
          /\ \A k \in DOMAIN params :
               Val(hostContext')[k] =
                 IF params[k] # Undefined THEN params[k] ELSE StoredContext(k)
          /\ toolInputs' = toolInputs
          /\ toolInputsPartial' = toolInputsPartial
          /\ toolResult' = toolResult]_vars

\* Both keys of the host context are stored, with tool inputs and a tool result
\* that events have delivered.
C15_Witness ==
  /\ hostContext # Null
  /\ StoredContext("displayMode") = "fullscreen"
  /\ StoredContext("theme") = "dark"
  /\ toolInputs # Null
  /\ toolInputsPartial # Null
  /\ toolResult # Null

\* The most recent scene execution (0 when there has been none).
CurrentExecution == Len(ctls)

\* C16 (as claimed; refuted under Spec): the stored scene error, and so the
\* overlay shown over the canvas, is the error of the most recent scene
\* execution, never that of an execution a newer one has superseded.
C16_ErrorBelongsToCurrentScene ==
  /\ sceneError # Null => Val(sceneError) = CurrentExecution
  /\ rendered.overlay # Null => Val(rendered.overlay) = CurrentExecution

\* cleanup() has been called on controller c, and c has not been handed to a
\* scene since: the component cleans a controller up when it replaces it (so
\* every controller but the current one) and when the scene effect's cleanup
\* runs (after which the effect holds no cleanup until it creates the next).
CleanedUp(c) == c # animControllerRef \/ ~hasCleanup

\* C17 (as claimed; refuted under Spec): a schedule call made through a
\* controller on which cleanup() has been called (its scene replaced, or the
\* view unmounted) forwards nothing to requestAnimationFrame, so it leaves no
\* frame request behind.
C17_CleanedUpControllerIsInert ==
  [][(ScheduleCalled /\ CleanedUp(schedLog'[Len(schedLog')]))
       => (rafLog' = rafLog /\ rafQueue' \subseteq rafQueue)]_vars

\* C18 (as claimed; refuted under Spec): whenever the canvas view is rendered,
\* a container element is mounted and it is the element the intersection
\* observer observes, also after the view has shown the streaming preview and
\* returned to the canvas view.
C18_ObserverFollowsContainer ==
  rendered.view = "canvas" => (containerRef # 0 /\ observed = containerRef)

\* C19 (as claimed; refuted under Spec): whenever the canvas view is rendered,
\* the most recent scene execution was run with the rendered code and height on
\* the canvas element that is mounted, also when a streaming phase ends with a
\* complete input that leaves code and height as they were before it.
C19_SceneMatchesRenderedCanvas ==
  rendered.view = "canvas" =>
    /\ canvasRef # 0
    /\ scene = [code |-> rendered.code, height |-> rendered.height,
                canvas |-> canvasRef]

\* C20 (as claimed; refuted under CtlSpec): a controller's list of tracked
\* frame-request ids holds only requests that are still outstanding: it is never
\* longer than the number of its requests that have neither run nor been
\* cancelled.
C20_TrackedIdsAreOutstanding ==
  \A c \in 1..Len(ctls) :
    /\ Range(ctls[c].rafIds) \subseteq Outstanding(c)
    /\ Len(ctls[c].rafIds) <= Cardinality(Outstanding(c))

=============================================================================
